---------------------------- MODULE Spec2Model ----------------------------
(***************************************************************************)
(* Model of scripts/test_impl_matcher.py (spring-boot-kotlin-tdd): the     *)
(* TestImplMatcher class, validate_files, print_report and the __main__    *)
(* driver.                                                                 *)
(*                                                                         *)
(* A corpus is a sequence of tokens.  A token is either a word (a maximal  *)
(* run of \w characters), one whitespace character (" " or "\n") or one    *)
(* punctuation character.  The regular expressions of the source are       *)
(* translated to scans over such sequences; they only ever test a          *)
(* character for being \w, \s, "\n" or a literal, so a scan over tokens    *)
(* matches exactly where the regex matches over the characters.            *)
(***************************************************************************)
EXTENDS Integers, Sequences, FiniteSets, TLC

VARIABLES
    testFile,    \* text of the file at sys.argv[1], or NoFile
    implFile,    \* text of the file at sys.argv[2], or NoFile
    hashSeed,    \* the interpreter's str-hash randomisation for this process
    pc,          \* "start" | "validated" | "printed" | "exit" | "lib"
    errors,      \* TestImplMatcher.errors   (of the client's matcher)
    warnings,    \* TestImplMatcher.warnings (of the client's matcher)
    lastCall,    \* the last method called on the client's matcher and its value
    ops,         \* number of method calls made on the client's matcher
    result,      \* the dict validate_files returned to __main__
    out,         \* what print_report has printed so far
    raised,      \* the exception that left the process, or "none"
    exitCode,    \* the process's exit status, NoExit while it runs
    prevResult,  \* the dict validate_files returned in the previous process
    runs         \* number of processes started on these two files

vars == <<testFile, implFile, hashSeed, pc, errors, warnings, lastCall, ops,
          result, out, raised, exitCode, prevResult, runs>>

-----------------------------------------------------------------------------
(* Bounds of the model.                                                    *)

MaxTestStmts == 2
MaxImplStmts == 2
MaxOps == 2
MaxRuns == 2

-----------------------------------------------------------------------------
(* Tokens.                                                                 *)

\* a path at which there is no file
NoFile == <<"<no such file>">>
\* Python's None
None == "<None>"

\* the exit status of a process that has not exited
NoExit == -1

Ws == {" ", "\n"}
Punct == {".", "(", ")", ",", "{", "}"}

\* \w+ : a word token
IsWord(t) == t \notin Ws /\ t \notin Punct

\* \s : one whitespace character
IsWs(t) == t \in Ws

\* position of the first token at or after i that is not whitespace (\s*)
RECURSIVE SkipWs(_, _)
SkipWs(code, i) ==
    IF i <= Len(code) /\ IsWs(code[i]) THEN SkipWs(code, i + 1) ELSE i

\* position of the first ")" at or after i on the same line, 0 when a "\n"
\* or the end of the text comes first: (.*?)\) where "." excludes "\n"
RECURSIVE LazyClose(_, _)
LazyClose(code, i) ==
    IF i > Len(code) THEN 0
    ELSE IF code[i] = ")" THEN i
    ELSE IF code[i] = "\n" THEN 0
    ELSE LazyClose(code, i + 1)


-----------------------------------------------------------------------------
(* Insertion-ordered dict (Python 3.7+): a sequence of [key, val] records. *)

HasKey(d, k) == \E i \in 1..Len(d) : d[i].key = k

Get(d, k) == d[CHOOSE i \in 1..Len(d) : d[i].key = k].val

\* d[k] = v : a new key goes last, an old key keeps its place
Put(d, k, v) ==
    IF HasKey(d, k)
    THEN [i \in 1..Len(d) |-> IF d[i].key = k THEN [key |-> k, val |-> v] ELSE d[i]]
    ELSE Append(d, [key |-> k, val |-> v])

-----------------------------------------------------------------------------
(* Iteration order of a set of str.  CPython orders a set by the hashes of *)
(* its elements, and str hashes are randomised for each process; within    *)
(* one process equal sets built the same way iterate the same way.  The    *)
(* model keeps two of the orders a process may produce.                    *)

WordOrder ==
    <<"foo", "bar", "verify", "equals", "_init", "isInstanceOf",
      "ValidationError", "NotFoundError", "\nNotFoundError">>

RECURSIVE Reverse(_)
Reverse(s) == IF s = <<>> THEN <<>> ELSE Append(Reverse(Tail(s)), Head(s))

SetOrder(S, seed) ==
    LET InS(w) == w \in S
    IN  SelectSeq(IF seed THEN Reverse(WordOrder) ELSE WordOrder, InS)

-----------------------------------------------------------------------------
(* Messages.  An f-string is a function of the values it formats: a        *)
(* message is the record of those values.  A set is formatted by its repr, *)
(* which lists the elements in iteration order ("names").                  *)

Msg(rule, method, tc, ic, names) ==
    [rule |-> rule, method |-> method, test_count |-> tc, impl_count |-> ic,
     names |-> names]

UndefinedMsg(m) == Msg("not found in implementation", m, 0, 0, <<>>)
UncoveredMsg(names) == Msg("Public methods without tests", None, 0, 0, names)
UntestedMsg(names) == Msg("Exceptions declared but not tested", None, 0, 0, names)
ArityMsg(m, tc, ic) == Msg("called with params", m, tc, ic, <<>>)

-----------------------------------------------------------------------------
(* extract_method_calls: r'(\w+)\.(\w+)\s*\(' over test_code.              *)

\* calls_by_class[obj].add(method), creating the set first when needed
AddCall(calls, obj, method) ==
    Put(calls, obj, (IF HasKey(calls, obj) THEN Get(calls, obj) ELSE {}) \cup {method})

\* end of the match that starts at i (the position of its "("), 0 if none
CallMatchEnd(code, i) ==
    IF i + 2 <= Len(code) /\ IsWord(code[i]) /\ code[i + 1] = "."
       /\ IsWord(code[i + 2])
    THEN LET j == SkipWs(code, i + 3)
         IN  IF j <= Len(code) /\ code[j] = "(" THEN j ELSE 0
    ELSE 0

RECURSIVE CallScan(_, _, _)
CallScan(code, i, calls) ==
    IF i > Len(code) THEN calls
    ELSE LET e == CallMatchEnd(code, i)
         IN  IF e > 0
             THEN CallScan(code, e + 1, AddCall(calls, code[i], code[i + 2]))
             ELSE CallScan(code, i + 1, calls)

extract_method_calls(test_code) == CallScan(test_code, 1, <<>>)

-----------------------------------------------------------------------------
(* extract_method_defs: r'fun\s+(\w+)\s*\(' over impl_code.                *)

\* position of the "(" of the definition that starts at i, 0 if none
DefMatchEnd(code, i) ==
    IF i + 2 <= Len(code) /\ code[i] = "fun" /\ IsWs(code[i + 1])
    THEN LET n == SkipWs(code, i + 1)
         IN  IF n <= Len(code) /\ IsWord(code[n])
             THEN LET j == SkipWs(code, n + 1)
                  IN  IF j <= Len(code) /\ code[j] = "(" THEN j ELSE 0
             ELSE 0
    ELSE 0

RECURSIVE DefScan(_, _, _)
DefScan(code, i, defs) ==
    IF i > Len(code) THEN defs
    ELSE LET e == DefMatchEnd(code, i)
         IN  IF e > 0
             THEN DefScan(code, e + 1, defs \cup {code[SkipWs(code, i + 1)]})
             ELSE DefScan(code, i + 1, defs)

extract_method_defs(impl_code) == DefScan(impl_code, 1, {})

-----------------------------------------------------------------------------
(* validate_method_match                                                   *)

Helpers == {"assertEquals", "assertTrue", "assertFalse", "reset", "given", "verify"}

\* VisitOrder with a method called through several receivers visited once
VisitOrderDistinct(calls, seed) ==
    SetOrder(UNION {calls[i].val : i \in 1..Len(calls)}, seed)

\* the methods in the order the two nested loops visit them: receivers in
\* dict order, each receiver's set in set order
RECURSIVE VisitOrder(_, _)
VisitOrder(calls, seed) ==
    IF calls = <<>> THEN <<>>
    ELSE SetOrder(calls[1].val, seed) \o VisitOrder(Tail(calls), seed)

\* the errors the loops append
MethodMatchErrors(test_code, impl_code, seed) ==
    LET defs == extract_method_defs(impl_code)
        visit == VisitOrder(extract_method_calls(test_code), seed)
        Missing(m) == m \notin Helpers /\ m \notin defs
        missing == SelectSeq(visit, Missing)
    IN  [i \in 1..Len(missing) |-> UndefinedMsg(missing[i])]

\* [errors |-> self.errors afterwards, ret |-> the value returned]
validate_method_match(test_code, impl_code, errs, seed) ==
    LET after == errs \o MethodMatchErrors(test_code, impl_code, seed)
    IN  [errors |-> after, ret |-> (Len(after) = 0)]

-----------------------------------------------------------------------------
(* validate_test_coverage                                                  *)

\* m.startswith('_'), on the words of the model
StartsWithUnderscore(m) == m \in {"_init"}

Structural == {"equals", "hashCode", "toString", "getClass"}

Uncovered(test_code, impl_code) ==
    LET defs == extract_method_defs(impl_code)
        calls == extract_method_calls(test_code)
        all_called_methods == UNION {calls[i].val : i \in 1..Len(calls)}
        public_methods == {m \in defs : ~StartsWithUnderscore(m)}
    IN  {m \in public_methods \ all_called_methods : m \notin Structural}

\* [warnings |-> self.warnings afterwards, ret |-> the value returned]
validate_test_coverage(test_code, impl_code, warns, seed) ==
    LET uncovered == Uncovered(test_code, impl_code)
    IN  [warnings |-> IF uncovered # {}
                      THEN Append(warns, UncoveredMsg(SetOrder(uncovered, seed)))
                      ELSE warns,
         ret |-> TRUE]

-----------------------------------------------------------------------------
(* validate_exception_handling                                             *)

\* exc.replace(' ', '').split(','): the pieces between the commas, each with
\* its spaces (and only its spaces) removed
RECURSIVE SplitNames(_, _)
SplitNames(text, cur) ==
    IF text = <<>> THEN {cur}
    ELSE IF Head(text) = "," THEN {cur} \cup SplitNames(Tail(text), "")
    ELSE IF Head(text) = " " THEN SplitNames(Tail(text), cur)
    ELSE SplitNames(Tail(text), cur \o Head(text))

\* (?:\s*,\s*\w+)* , greedy: the position of the last word of the list whose
\* latest word is at n
RECURSIVE ThrowsEnd(_, _)
ThrowsEnd(code, n) ==
    LET a == SkipWs(code, n + 1)
        b == SkipWs(code, a + 1)
    IN  IF a <= Len(code) /\ code[a] = "," /\ b <= Len(code) /\ IsWord(code[b])
        THEN ThrowsEnd(code, b)
        ELSE n

\* r'throws\s+(\w+(?:\s*,\s*\w+)*)' over impl_code
RECURSIVE ThrowsScan(_, _, _)
ThrowsScan(code, i, thrown) ==
    IF i > Len(code) THEN thrown
    ELSE LET n == SkipWs(code, i + 1)
         IN  IF code[i] = "throws" /\ i + 1 <= Len(code) /\ IsWs(code[i + 1])
                /\ n <= Len(code) /\ IsWord(code[n])
             THEN LET e == ThrowsEnd(code, n)
                  IN  ThrowsScan(code, e + 1,
                                 thrown \cup SplitNames(SubSeq(code, n, e), ""))
             ELSE ThrowsScan(code, i + 1, thrown)

thrown_exceptions(impl_code) == ThrowsScan(impl_code, 1, {})

\* first k >= i where \.isInstanceOf\((\w+) matches, 0 if none (.*? spans
\* lines under re.DOTALL)
RECURSIVE LazyIsInstanceOf(_, _)
LazyIsInstanceOf(code, k) ==
    IF k + 3 > Len(code) THEN 0
    ELSE IF code[k] = "." /\ code[k + 1] = "isInstanceOf" /\ code[k + 2] = "("
            /\ IsWord(code[k + 3])
         THEN k
         ELSE LazyIsInstanceOf(code, k + 1)

\* r'assertThatThrownBy.*?\.isInstanceOf\((\w+)' over test_code
RECURSIVE AssertScan(_, _, _)
AssertScan(code, i, tested) ==
    IF i > Len(code) THEN tested
    ELSE LET k == IF code[i] = "assertThatThrownBy"
                  THEN LazyIsInstanceOf(code, i + 1) ELSE 0
         IN  IF k > 0
             THEN AssertScan(code, k + 4, tested \cup {code[k + 3]})
             ELSE AssertScan(code, i + 1, tested)

tested_exceptions(test_code) == AssertScan(test_code, 1, {})

\* [warnings |-> self.warnings afterwards, ret |-> the value returned]
validate_exception_handling(test_code, impl_code, warns, seed) ==
    LET untested == thrown_exceptions(impl_code) \ tested_exceptions(test_code)
    IN  [warnings |-> IF untested # {}
                      THEN Append(warns, UntestedMsg(SetOrder(untested, seed)))
                      ELSE warns,
         ret |-> TRUE]

-----------------------------------------------------------------------------
(* validate_signature_match                                                *)

\* r'fun\s+(\w+)\s*\((.*?)\)' over impl_code: impl_sigs
RECURSIVE ImplSigScan(_, _, _)
ImplSigScan(code, i, sigs) ==
    IF i > Len(code) THEN sigs
    ELSE LET j == DefMatchEnd(code, i)
             c == IF j > 0 THEN LazyClose(code, j + 1) ELSE 0
         IN  IF c > 0
             THEN ImplSigScan(code, c + 1,
                      Put(sigs, code[SkipWs(code, i + 1)], SubSeq(code, j + 1, c - 1)))
             ELSE ImplSigScan(code, i + 1, sigs)

\* r'\.(\w+)\s*\((.*?)\)' over test_code: test_calls
RECURSIVE TestCallScan(_, _, _)
TestCallScan(code, i, tcalls) ==
    IF i > Len(code) THEN tcalls
    ELSE LET j == IF i + 1 <= Len(code) /\ code[i] = "." /\ IsWord(code[i + 1])
                  THEN SkipWs(code, i + 2) ELSE 0
             c == IF j > 0 /\ j <= Len(code) /\ code[j] = "("
                  THEN LazyClose(code, j + 1) ELSE 0
         IN  IF c > 0
             THEN TestCallScan(code, c + 1,
                      Put(tcalls, code[i + 1], SubSeq(code, j + 1, c - 1)))
             ELSE TestCallScan(code, i + 1, tcalls)

\* len([p for p in params.split(',') if p.strip()])
RECURSIVE ParamCount(_, _)
ParamCount(text, pending) ==
    IF text = <<>> THEN (IF pending THEN 1 ELSE 0)
    ELSE IF Head(text) = ","
         THEN (IF pending THEN 1 ELSE 0) + ParamCount(Tail(text), FALSE)
         ELSE ParamCount(Tail(text), pending \/ ~IsWs(Head(text)))

\* the errors the loop over test_calls appends
RECURSIVE SignatureErrors(_, _)
SignatureErrors(tcalls, sigs) ==
    IF tcalls = <<>> THEN <<>>
    ELSE LET method == tcalls[1].key
             rest == SignatureErrors(Tail(tcalls), sigs)
         IN  IF HasKey(sigs, method)
             THEN LET test_param_count == ParamCount(tcalls[1].val, FALSE)
                      impl_param_count == ParamCount(Get(sigs, method), FALSE)
                  IN  IF test_param_count # impl_param_count
                      THEN <<ArityMsg(method, test_param_count, impl_param_count)>>
                           \o rest
                      ELSE rest
             ELSE rest

\* [errors |-> self.errors afterwards, ret |-> the value returned]
validate_signature_match(test_code, impl_code, errs) ==
    LET after == errs \o SignatureErrors(TestCallScan(test_code, 1, <<>>),
                                         ImplSigScan(impl_code, 1, <<>>))
    IN  [errors |-> after, ret |-> (Len(after) = 0)]

-----------------------------------------------------------------------------
(* run_all_checks                                                          *)

\* A dict is the record of its values and the set of the keys it holds; the
\* field of a key it does not hold is a placeholder no code reads without a
\* KeyError or a .get default.
ReportKeys == {"errors", "warnings", "error_count", "warning_count"}

\* Report with success withheld from a run that has warnings
ReportWarningsFail(errs, warns) ==
    [keys |-> {"success"} \cup ReportKeys,
     success |-> (Len(errs) = 0 /\ Len(warns) = 0), errors |-> errs,
     warnings |-> warns, error_count |-> Len(errs),
     warning_count |-> Len(warns), error |-> None]

\* the dict run_all_checks returns
Report(errs, warns) ==
    [keys |-> {"success"} \cup ReportKeys,
     success |-> (Len(errs) = 0), errors |-> errs, warnings |-> warns,
     error_count |-> Len(errs), warning_count |-> Len(warns), error |-> None]

\* [errors, warnings |-> the matcher's lists afterwards, report |-> the dict]
run_all_checks(test_code, impl_code, errs, warns, seed) ==
    LET e1 == validate_method_match(test_code, impl_code, errs, seed).errors
        w2 == validate_test_coverage(test_code, impl_code, warns, seed).warnings
        w3 == validate_exception_handling(test_code, impl_code, w2, seed).warnings
        e4 == validate_signature_match(test_code, impl_code, e1).errors
    IN  [errors |-> e4, warnings |-> w3, report |-> Report(e4, w3)]

-----------------------------------------------------------------------------
(* validate_files                                                          *)

\* no dict yet
NoResult ==
    [keys |-> {}, success |-> FALSE, errors |-> <<>>, warnings |-> <<>>,
     error_count |-> 0, warning_count |-> 0, error |-> None]

\* the dict returned when read_text raises FileNotFoundError
FileNotFound ==
    [keys |-> {"success", "error"},
     success |-> FALSE, errors |-> <<>>, warnings |-> <<>>,
     error_count |-> 0, warning_count |-> 0, error |-> "File not found"]

validate_files(test_file, impl_file, seed) ==
    IF test_file = NoFile \/ impl_file = NoFile
    THEN FileNotFound
    ELSE run_all_checks(test_file, impl_file, <<>>, <<>>, seed).report

-----------------------------------------------------------------------------
(* print_report                                                            *)

\* result.get(k): the value, or None (falsy) for a missing key
DictGet(d, k, v) == IF k \in d.keys THEN v ELSE <<>>

\* one "  - {message}" line for each message
Bullets(msgs) == [i \in 1..Len(msgs) |-> "  - message"]

\* the lines printed up to the first KeyError, and that KeyError if any
print_report(res) ==
    LET banner == <<"header">>
        verdict == IF res.success THEN <<"PASSED">> ELSE <<"FAILED">>
        errs == DictGet(res, "errors", res.errors)
        warns == DictGet(res, "warnings", res.warnings)
        eblock == IF Len(errs) > 0 THEN <<"ERRORS">> \o Bullets(errs) ELSE <<>>
        wblock == IF Len(warns) > 0 THEN <<"WARNINGS">> \o Bullets(warns) ELSE <<>>
        body == banner \o verdict \o eblock \o wblock
    IN  IF "success" \notin res.keys
        THEN [out |-> banner, raised |-> "KeyError"]
        ELSE IF "error_count" \notin res.keys \/ "warning_count" \notin res.keys
        THEN [out |-> body, raised |-> "KeyError"]
        ELSE [out |-> body \o <<"Total">>, raised |-> "none"]

-----------------------------------------------------------------------------
(* Input corpora: statements of the source language, as tokens.            *)

CallStmt(recv, method, args) == <<recv, ".", method, "(">> \o args \o <<")", "\n">>

AssertStmt(exc) ==
    <<"assertThatThrownBy", " ", "{", " ", "}", ".", "isInstanceOf", "(", exc, ")", "\n">>

DefStmt(name, params, throws) ==
    <<"fun", " ", name, "(">> \o params \o <<")">> \o throws \o <<"\n">>

Args1 == <<"a">>
Args2 == <<"a", ",", " ", "b">>
ArgsNested2 == <<"g", "(", "a", ")", ",", " ", "b">>
ArgsNested1 == <<"listOf", "(", "a", ",", " ", "b", ")">>

Params1 == <<"x">>
Params2 == <<"x", ",", " ", "y">>
Params3 == <<"x", ",", " ", "y", ",", " ", "z">>

NoThrows == <<>>
Throws1 == <<" ", "throws", " ", "ValidationError">>
Throws2 == <<" ", "throws", " ", "ValidationError", ",", " ", "NotFoundError">>
Throws2Lines == <<" ", "throws", " ", "ValidationError", ",", "\n", "NotFoundError">>

\* the texts made of at most n statements of S
RECURSIVE Corpora(_, _)
Corpora(S, n) ==
    IF n = 0 THEN {<<>>}
    ELSE LET C == Corpora(S, n - 1)
         IN  C \cup {c \o st : c \in C, st \in S}

-----------------------------------------------------------------------------
(* The process: python test_impl_matcher.py <test_file> <impl_file>, or a  *)
(* client that imports the module and calls a TestImplMatcher's methods.   *)

InitWith(TestStmts, ImplStmts) ==
    /\ testFile \in Corpora(TestStmts, MaxTestStmts) \cup {NoFile}
    /\ implFile \in Corpora(ImplStmts, MaxImplStmts) \cup {NoFile}
    /\ hashSeed \in BOOLEAN
    /\ pc = "start"
    /\ errors = <<>>
    /\ warnings = <<>>
    /\ lastCall = [op |-> None, ret |-> TRUE]
    /\ ops = 0
    /\ result = NoResult
    /\ out = <<>>
    /\ raised = "none"
    /\ exitCode = NoExit
    /\ prevResult = NoResult
    /\ runs = 1

\* __main__: result = validate_files(test_file, impl_file)
ValidateFiles ==
    /\ pc = "start"
    /\ result' = validate_files(testFile, implFile, hashSeed)
    /\ pc' = "validated"
    /\ UNCHANGED <<testFile, implFile, hashSeed, errors, warnings, lastCall, ops,
                   out, raised, exitCode, prevResult, runs>>

\* __main__: print_report(result); a KeyError leaves the process through the
\* interpreter, which prints the traceback and exits with status 1
PrintReport ==
    /\ pc = "validated"
    /\ LET p == print_report(result)
       IN  /\ out' = p.out
           /\ raised' = p.raised
           /\ pc' = IF p.raised = "none" THEN "printed" ELSE "exit"
           /\ exitCode' = IF p.raised = "none" THEN NoExit ELSE 1
    /\ UNCHANGED <<testFile, implFile, hashSeed, errors, warnings, lastCall, ops,
                   result, prevResult, runs>>

\* __main__: sys.exit(0 if result['success'] else 1)
Exit ==
    /\ pc = "printed"
    /\ exitCode' = IF result.success THEN 0 ELSE 1
    /\ pc' = "exit"
    /\ UNCHANGED <<testFile, implFile, hashSeed, errors, warnings, lastCall, ops,
                   result, out, raised, prevResult, runs>>

\* the script is run again on the same two files, in a new process
RunAgain ==
    /\ pc = "exit"
    /\ runs < MaxRuns
    /\ runs' = runs + 1
    /\ prevResult' = result
    /\ hashSeed' \in BOOLEAN
    /\ pc' = "start"
    /\ result' = NoResult
    /\ out' = <<>>
    /\ raised' = "none"
    /\ exitCode' = NoExit
    /\ UNCHANGED <<testFile, implFile, errors, warnings, lastCall, ops>>

\* client: matcher = TestImplMatcher(test_code, impl_code)
NewMatcher ==
    /\ pc = "start"
    /\ runs = 1
    /\ testFile # NoFile /\ implFile # NoFile
    /\ errors' = <<>>
    /\ warnings' = <<>>
    /\ pc' = "lib"
    /\ UNCHANGED <<testFile, implFile, hashSeed, lastCall, ops, result, out, raised,
                   exitCode, prevResult, runs>>

\* a method call on the client's matcher
Called(op, ret) ==
    /\ pc = "lib"
    /\ ops < MaxOps
    /\ ops' = ops + 1
    /\ lastCall' = [op |-> op, ret |-> ret]
    /\ UNCHANGED <<testFile, implFile, hashSeed, pc, out, raised, exitCode,
                   prevResult, runs>>

ValidateMethodMatch ==
    LET r == validate_method_match(testFile, implFile, errors, hashSeed)
    IN  /\ Called("validate_method_match", r.ret)
        /\ errors' = r.errors
        /\ UNCHANGED <<warnings, result>>

ValidateTestCoverage ==
    LET r == validate_test_coverage(testFile, implFile, warnings, hashSeed)
    IN  /\ Called("validate_test_coverage", r.ret)
        /\ warnings' = r.warnings
        /\ UNCHANGED <<errors, result>>

ValidateExceptionHandling ==
    LET r == validate_exception_handling(testFile, implFile, warnings, hashSeed)
    IN  /\ Called("validate_exception_handling", r.ret)
        /\ warnings' = r.warnings
        /\ UNCHANGED <<errors, result>>

ValidateSignatureMatch ==
    LET r == validate_signature_match(testFile, implFile, errors)
    IN  /\ Called("validate_signature_match", r.ret)
        /\ errors' = r.errors
        /\ UNCHANGED <<warnings, result>>

\* success, result = matcher.run_all_checks()
RunAllChecks ==
    LET r == run_all_checks(testFile, implFile, errors, warnings, hashSeed)
    IN  /\ Called("run_all_checks", r.report.success)
        /\ errors' = r.errors
        /\ warnings' = r.warnings
        /\ result' = r.report

Next ==
    \/ ValidateFiles
    \/ PrintReport
    \/ Exit
    \/ RunAgain
    \/ NewMatcher
    \/ ValidateMethodMatch
    \/ ValidateTestCoverage
    \/ ValidateExceptionHandling
    \/ ValidateSignatureMatch
    \/ RunAllChecks

-----------------------------------------------------------------------------
(* Specifications: the same process on different families of input files.  *)

\* one method called with different argument lists, and a throws clause
TestStmts ==
    {CallStmt("svc", "foo", Args1), CallStmt("svc", "foo", Args2),
     AssertStmt("ValidationError")}

ImplStmts == {DefStmt("foo", Params1, NoThrows), DefStmt("bar", Params1, Throws1)}

Init == InitWith(TestStmts, ImplStmts)

Spec == Init /\ [][Next]_vars

\* several receivers and several methods, one of them an exempt helper
Receivers == {"svc", "repo"}
CalledMethods == {"foo", "bar", "verify"}

CallsTestStmts == {CallStmt(r, m, Args1) : r \in Receivers, m \in CalledMethods}

CallsImplStmts == {DefStmt("foo", Params1, NoThrows)}

InitCalls == InitWith(CallsTestStmts, CallsImplStmts)

SpecCalls == InitCalls /\ [][Next]_vars

\* calls and definitions of one method with every shape of argument list
ArityTestStmts ==
    {CallStmt("svc", "foo", a) : a \in {Args1, Args2, ArgsNested2, ArgsNested1}}

ArityImplStmts == {DefStmt("foo", p, NoThrows) : p \in {Params1, Params2, Params3}}

InitArity == InitWith(ArityTestStmts, ArityImplStmts)

SpecArity == InitArity /\ [][Next]_vars

\* throws clauses and exception assertions; exempt and private definitions
ExcTestStmts ==
    {AssertStmt("ValidationError"), AssertStmt("NotFoundError"),
     CallStmt("svc", "foo", Args1)}

ExcImplStmts ==
    {DefStmt("foo", Params1, t) : t \in {NoThrows, Throws1, Throws2, Throws2Lines}}
        \cup {DefStmt("equals", Params1, NoThrows), DefStmt("_init", Params1, NoThrows)}

InitExc == InitWith(ExcTestStmts, ExcImplStmts)

SpecExc == InitExc /\ [][Next]_vars

-----------------------------------------------------------------------------
(* Properties.                                                             *)

\* the driver holds the dict of a completed run_all_checks
HasReport == pc \in {"validated", "printed", "exit"} /\ ReportKeys \subseteq result.keys

\* the client's matcher has had exactly one method called on it: op
FirstCall(op) == pc = "lib" /\ ops = 1 /\ lastCall.op = op

FilesExist == testFile # NoFile /\ implFile # NoFile

\* C1: the report returned by run_all_checks, after whatever rule calls were
\* made on the matcher before, has success exactly when it has no errors,
\* whatever its warnings; the driver exits with 0 exactly when success is
\* true and with 1 otherwise.
C1_SuccessIffNoErrors ==
    /\ lastCall.op = "run_all_checks" =>
          /\ result.success = (Len(errors) = 0)
          /\ result.errors = errors /\ result.error_count = Len(errors)
          /\ result.warnings = warnings
          /\ lastCall.ret = result.success
    /\ HasReport => result.success = (Len(result.errors) = 0)
    /\ pc = "exit" => exitCode = (IF result.success THEN 0 ELSE 1)

\* a run with warnings and no errors has exited with 0
C1_Witness ==
    pc = "exit" /\ HasReport /\ result.warning_count >= 2 /\ result.error_count = 0
    /\ exitCode = 0

\* C2: with a missing test or implementation file the driver ends with
\* success false, a message, no report field, exit code 1, and no unhandled
\* exception at any step.
C2_FatalPath ==
    (pc = "exit" /\ ~FilesExist) =>
        /\ ~result.success
        /\ "error" \in result.keys /\ result.error # None
        /\ result.keys \cap ReportKeys = {}
        /\ exitCode = 1
        /\ raised = "none"

\* C9: what validate_method_match and validate_signature_match return
\* depends on the two corpora only: it is what the rule returns on a fresh
\* matcher, whichever calls came before.
C9_RuleIndependence ==
    /\ lastCall.op = "validate_method_match" =>
          lastCall.ret = validate_method_match(testFile, implFile, <<>>, hashSeed).ret
    /\ lastCall.op = "validate_signature_match" =>
          lastCall.ret = validate_signature_match(testFile, implFile, <<>>).ret

-----------------------------------------------------------------------------
(* Notions the properties below are stated with.                           *)

\* a call site recv.method( occurs in the text at i
CallSiteAt(code, i, recv, method) ==
    /\ i + 2 <= Len(code)
    /\ code[i] = recv /\ code[i + 1] = "." /\ code[i + 2] = method
    /\ LET j == SkipWs(code, i + 3) IN j <= Len(code) /\ code[j] = "("

CallSiteOccurs(code, recv, method) ==
    \E i \in 1..Len(code) : CallSiteAt(code, i, recv, method)

\* the places where a statement can be added: the start of a line
LineStarts(code) == {0} \cup {k \in 1..Len(code) : code[k] = "\n"}

InsertAt(code, k, stmt) == SubSeq(code, 1, k) \o stmt \o SubSeq(code, k + 1, Len(code))

\* the error count of the report for the given test corpus
ErrorCount(test_code) == validate_files(test_code, implFile, hashSeed).error_count

\* the call sites that can be added under C3: a method that is neither
\* defined in the implementation nor an exempt helper
Addable ==
    {site \in Receivers \X CalledMethods :
        /\ site[2] \notin Helpers
        /\ ~\E i \in 1..Len(implFile) :
              /\ DefMatchEnd(implFile, i) > 0
              /\ implFile[SkipWs(implFile, i + 1)] = site[2]}

\* the argument lists of an added call site
AddedArgs == {Args1, Args2, ArgsNested2}

NoDuplicates(msgs) ==
    \A i, j \in 1..Len(msgs) : msgs[i] = msgs[j] => i = j

-----------------------------------------------------------------------------

\* C3 as stated: adding one call site receiver.m(...), m undefined and not
\* exempt, raises the error count by exactly one, whatever the test corpus
\* already holds.
C3_AnyCallSiteAddsOne ==
    (pc = "validated" /\ HasReport) =>
        \A site \in Addable : \A k \in LineStarts(testFile) : \A args \in AddedArgs :
            ErrorCount(InsertAt(testFile, k, CallStmt(site[1], site[2], args)))
                = result.error_count + 1

\* C3 as amended: adding one call site receiver.m(...), m undefined and not
\* exempt, where receiver.m( does not occur in the test corpus yet, raises
\* the error count by exactly one.
C3_NewCallSiteAddsOne ==
    (pc = "validated" /\ HasReport) =>
        \A site \in Addable : \A k \in LineStarts(testFile) : \A args \in AddedArgs :
            ~CallSiteOccurs(testFile, site[1], site[2]) =>
                ErrorCount(InsertAt(testFile, k, CallStmt(site[1], site[2], args)))
                    = result.error_count + 1

\* a report with an error for a method that can still be added through the
\* other receiver
C3_Witness ==
    /\ pc = "validated" /\ HasReport /\ result.error_count >= 1
    /\ \E site \in Addable :
          /\ ~CallSiteOccurs(testFile, site[1], site[2])
          /\ \E r \in Receivers : CallSiteOccurs(testFile, r, site[2])

\* C6: two runs of the pipeline on the same two files give the same report,
\* message for message, in the same order.
C6_Determinism ==
    (HasReport /\ ReportKeys \subseteq prevResult.keys) => result = prevResult

\* C10: the errors of a report hold no message twice, and neither do its
\* warnings.
C10_Deduplicated ==
    (HasReport \/ lastCall.op = "run_all_checks") =>
        NoDuplicates(result.errors) /\ NoDuplicates(result.warnings)

-----------------------------------------------------------------------------
(* Arity, as the specification defines it: the argument text runs to the   *)
(* closing parenthesis at the same nesting depth, and is split on the      *)
(* commas at depth 0.                                                      *)

\* position of the ")" that closes the parenthesis whose content starts at
\* i, 0 if there is none
RECURSIVE MatchClose(_, _, _)
MatchClose(code, i, depth) ==
    IF i > Len(code) THEN 0
    ELSE IF code[i] = "(" THEN MatchClose(code, i + 1, depth + 1)
    ELSE IF code[i] = ")"
         THEN (IF depth = 0 THEN i ELSE MatchClose(code, i + 1, depth - 1))
    ELSE MatchClose(code, i + 1, depth)

\* number of non-empty segments between the commas at depth 0
RECURSIVE TopLevelCount(_, _, _)
TopLevelCount(text, depth, pending) ==
    IF text = <<>> THEN (IF pending THEN 1 ELSE 0)
    ELSE IF Head(text) = "," /\ depth = 0
         THEN (IF pending THEN 1 ELSE 0) + TopLevelCount(Tail(text), 0, FALSE)
    ELSE TopLevelCount(Tail(text),
                       depth + (IF Head(text) = "(" THEN 1
                                ELSE IF Head(text) = ")" THEN -1 ELSE 0),
                       pending \/ ~IsWs(Head(text)))

\* the position of the "(" of a call site .method( that starts at i, else 0
SiteOpen(code, i, method) ==
    IF i + 1 <= Len(code) /\ code[i] = "." /\ code[i + 1] = method
    THEN LET j == SkipWs(code, i + 2)
         IN  IF j <= Len(code) /\ code[j] = "(" THEN j ELSE 0
    ELSE 0

\* the places of the call sites of method in the test corpus
SitesOf(code, method) == {i \in 1..Len(code) : SiteOpen(code, i, method) > 0}

\* the argument count of the call site at i
SiteArity(code, i, method) ==
    LET j == SiteOpen(code, i, method)
    IN  TopLevelCount(SubSeq(code, j + 1, MatchClose(code, j + 1, 0) - 1), 0, FALSE)

\* the places of the definitions of method in the implementation corpus
DefsOf(code, method) ==
    {i \in 1..Len(code) :
        DefMatchEnd(code, i) > 0 /\ code[SkipWs(code, i + 1)] = method}

\* the parameter count of the definition at i
DefArity(code, i) ==
    LET j == DefMatchEnd(code, i)
    IN  TopLevelCount(SubSeq(code, j + 1, MatchClose(code, j + 1, 0) - 1), 0, FALSE)

\* the arity errors for method among msgs
ArityErrors(msgs, method) ==
    LET IsArity(e) == e.rule = "called with params" /\ e.method = method
    IN  SelectSeq(msgs, IsArity)

\* test_calls with each argument text taken to its matching parenthesis
RECURSIVE BalancedTestCalls(_, _, _)
BalancedTestCalls(code, i, tcalls) ==
    IF i > Len(code) THEN tcalls
    ELSE LET j == IF i + 1 <= Len(code) /\ IsWord(code[i + 1])
                  THEN SiteOpen(code, i, code[i + 1]) ELSE 0
             c == IF j > 0 THEN MatchClose(code, j + 1, 0) ELSE 0
         IN  IF c > 0
             THEN BalancedTestCalls(code, c + 1,
                      Put(tcalls, code[i + 1], SubSeq(code, j + 1, c - 1)))
             ELSE BalancedTestCalls(code, i + 1, tcalls)

\* the errors of the arity rule when it counts top-level arguments
RECURSIVE BalancedSignatureErrors(_, _)
BalancedSignatureErrors(tcalls, sigs) ==
    IF tcalls = <<>> THEN <<>>
    ELSE LET method == tcalls[1].key
             rest == BalancedSignatureErrors(Tail(tcalls), sigs)
             n == TopLevelCount(tcalls[1].val, 0, FALSE)
         IN  IF HasKey(sigs, method) /\ n # ParamCount(Get(sigs, method), FALSE)
             THEN <<ArityMsg(method, n, ParamCount(Get(sigs, method), FALSE))>> \o rest
             ELSE rest

-----------------------------------------------------------------------------

\* C4: for a method with one call site of n arguments and one definition of
\* m parameters, validate_signature_match adds exactly one arity error,
\* naming n and m, when n # m, and none when n = m.
C4_AritySymmetry ==
    FirstCall("validate_signature_match") =>
        \A f \in CalledMethods :
            (Cardinality(SitesOf(testFile, f)) = 1
             /\ Cardinality(DefsOf(implFile, f)) = 1) =>
                LET n == SiteArity(testFile, CHOOSE i \in SitesOf(testFile, f) : TRUE, f)
                    m == DefArity(implFile, CHOOSE i \in DefsOf(implFile, f) : TRUE)
                IN  ArityErrors(errors, f)
                        = IF n # m THEN <<ArityMsg(f, n, m)>> ELSE <<>>

\* C7: the arity rule takes the argument text of a call site up to the
\* closing parenthesis at the same depth and counts its top-level
\* arguments: its errors are those of the balanced, top-level reading.
C7_NestedArguments ==
    FirstCall("validate_signature_match") =>
        errors = BalancedSignatureErrors(BalancedTestCalls(testFile, 1, <<>>),
                                         ImplSigScan(implFile, 1, <<>>))

\* C8: a method defined once, with m parameters, gets an arity error as
\* soon as one of its call sites has an argument count other than m,
\* wherever that call site stands.
C8_EveryArityCompared ==
    FirstCall("validate_signature_match") =>
        \A f \in CalledMethods :
            (Cardinality(DefsOf(implFile, f)) = 1
             /\ \E i \in SitesOf(testFile, f) :
                   SiteArity(testFile, i, f)
                       # DefArity(implFile, CHOOSE d \in DefsOf(implFile, f) : TRUE))
                => ArityErrors(errors, f) # <<>>

-----------------------------------------------------------------------------

\* the exception types a throws clause of the implementation names
ThrownTypes(code) ==
    {code[k] : k \in {k \in 1..Len(code) :
        /\ IsWord(code[k])
        /\ \E i \in 1..k :
              /\ code[i] = "throws" /\ i + 1 <= Len(code) /\ IsWs(code[i + 1])
              /\ LET n == SkipWs(code, i + 1)
                 IN  n <= k /\ IsWord(code[n]) /\ k <= ThrowsEnd(code, n)}}

\* C5: validate_exception_handling adds at most one warning, and adds one
\* exactly when some exception type of a throws clause is not asserted in
\* the tests; the warning names those types and no others.
C5_UntestedExceptions ==
    FirstCall("validate_exception_handling") =>
        LET untested == ThrownTypes(implFile) \ tested_exceptions(testFile)
        IN  /\ Len(warnings) = (IF untested = {} THEN 0 ELSE 1)
            /\ untested # {} =>
                  {warnings[1].names[i] : i \in 1..Len(warnings[1].names)} = untested

=============================================================================
